---- MODULE Spec2Model ----
(***************************************************************************)
(* txn-service: the funds transfer engine (internal/service,               *)
(* internal/repository) over the PostgreSQL ledger store.                  *)
(*                                                                         *)
(* Every request is one process.  The committed tables (accounts,          *)
(* transactions), the row holds and each request's open unit of work are   *)
(* the state; every store call of a handler is one step.                   *)
(*                                                                         *)
(* Amounts.  The accounts.balance and transactions.amount columns are      *)
(* DECIMAL(20,8): a stored value is a record [nan, q]: NaN, or q quanta    *)
(* of 10^-8.  A float64 is a record [nan, n]: NaN, or the decimal          *)
(* n * 10^-9, tenths of a quantum, so that an amount with nine fractional  *)
(* digits, which the service accepts, is representable.  The               *)
(* model's magnitudes stay far below 2^53 * 10^-9, where the float64       *)
(* nearest to a decimal, formatted by the driver with the shortest         *)
(* round-trip digits, denotes that decimal again; what float64 arithmetic  *)
(* adds is the hair above or below an exact tie (see NumericFromFloat).    *)
(***************************************************************************)
EXTENDS Integers, Sequences, FiniteSets, TLC

\* ------------------------------------------------------------------ bounds
NumProcs == 2        \* concurrent requests of Spec
NumAccounts == 2     \* account rows 1..NumAccounts exist initially in Spec
InitBalance == 1     \* initial balance of each account, in quanta
PairAccounts == 4    \* account rows of SpecPairs (two disjoint pairs)
RingSize == 3        \* accounts and concurrent requests of SpecAccounts

\* Tenths of a quantum per quantum: scale 8 of DECIMAL(20,8) against the
\* model's nine fractional digits.
ScaleStep == 10

NoProc == 0

\* ----------------------------------------------------------------- numbers
NaN == [nan |-> TRUE, n |-> 0]
Num(k) == [nan |-> FALSE, n |-> k]
DecimalNaN == [nan |-> TRUE, q |-> 0]
Decimal(q) == [nan |-> FALSE, q |-> q]

\* Go's float64 comparison: false whenever an operand is NaN.
FloatLess(a, b) == ~a.nan /\ ~b.nan /\ a.n < b.n
FloatLessEq(a, b) == ~a.nan /\ ~b.nan /\ a.n <= b.n
FloatSub(a, b) == IF a.nan \/ b.nan THEN NaN ELSE Num(a.n - b.n)
FloatAdd(a, b) == IF a.nan \/ b.nan THEN NaN ELSE Num(a.n + b.n)

\* The amount strings of the requests.
AmountStrings == {"", "abc", "-0.00000001", "0", "0.000000005", "0.00000001", "NaN"}

\* strconv.ParseFloat(s, 64) on the strings above: ok is err == nil.
\* "NaN" is accepted (ParseFloat recognizes it) and yields NaN.
ParseFloat(s) ==
  CASE s = "-0.00000001" -> [ok |-> TRUE, val |-> Num(0 - ScaleStep)]
    [] s = "0"           -> [ok |-> TRUE, val |-> Num(0)]
    [] s = "0.000000005" -> [ok |-> TRUE, val |-> Num(ScaleStep \div 2)]
    [] s = "0.00000001"  -> [ok |-> TRUE, val |-> Num(ScaleStep)]
    [] s = "NaN"         -> [ok |-> TRUE, val |-> NaN]
    [] OTHER             -> [ok |-> FALSE, val |-> Num(0)]

\* A decimal text assigned to a DECIMAL(20,8) column: rounded to a whole
\* quantum, ties away from zero; NaN is a value of the column type.
NumericFromText(v) ==
  IF v.nan THEN DecimalNaN
  ELSE LET r == v.n % ScaleStep
           lo == (v.n - r) \div ScaleStep
       IN  IF r = 0 THEN Decimal(lo)
           ELSE IF 2 * r < ScaleStep THEN Decimal(lo)
           ELSE IF 2 * r > ScaleStep THEN Decimal(lo + 1)
           ELSE IF v.n > 0 THEN Decimal(lo + 1) ELSE Decimal(lo)

\* A float64 bound to a DECIMAL(20,8) column (the driver sends its shortest
\* round-trip digits, the column rounds them): the values the column can
\* end up with.  Away from a tie this is the rounding above.  At a tie the
\* float64 sum or difference lies on the tie or a hair beside it, depending
\* on the operands: below 3e-8 it is on or above it (5e-09,
\* 1.5000000000000002e-08, 2.5e-08), so the value rounds up; from there on
\* both sides occur (2e-8 + 1.5e-8 is 3.4999999999999996e-08), so either
\* neighbour can be stored.
NumericFromFloat(f) ==
  IF f.nan THEN {DecimalNaN}
  ELSE LET r == f.n % ScaleStep
           lo == (f.n - r) \div ScaleStep
       IN  IF 2 * r = ScaleStep /\ ~(0 <= f.n /\ f.n < 3 * ScaleStep)
           THEN {Decimal(lo), Decimal(lo + 1)}
           ELSE {NumericFromText(f)}

\* A stored balance scanned into models.Account.Balance as text and parsed
\* by strconv.ParseFloat: the float64 nearest to the decimal.
BalanceToFloat(b) == IF b.nan THEN NaN ELSE Num(b.q * ScaleStep)

\* ------------------------------------------------------------------- state
VARIABLES
  accounts,   \* committed accounts table: account_id -> balance
  txns,       \* committed transactions table: transaction_id -> record
  locks,      \* row holds on account rows: account_id -> holder or NoProc
  pc,         \* where each request is
  req,        \* each request's arguments
  held,       \* balances read under hold (sourceAccount, destinationAccount)
  wbal,       \* uncommitted account rows written by each unit of work
  wstat,      \* uncommitted status write of each unit of work
  stale,      \* REPEATABLE READ units waiting for a row that was since replaced
  result,     \* what each request returned: "running", "" for nil, or the error
  effects,    \* committed balance writes per transaction_id (history)
  got         \* the account each GetAccount request returned

vars == <<accounts, txns, locks, pc, req, held, wbal, wstat, stale, result, effects, got>>

Procs == DOMAIN pc
AccountIDs == DOMAIN locks

NoReq == [src |-> 0, dst |-> 0, amount |-> ""]
NoHeld == [src |-> Decimal(0), dst |-> Decimal(0)]
NoWrites == [x \in {} |-> Decimal(0)]
NoEffect == [debit |-> 0, credit |-> 0]
NoAccount == [account_id |-> 0, found |-> FALSE, balance |-> Decimal(0)]

TransactionStatusPending == "pending"
TransactionStatusCompleted == "completed"
TransactionStatusFailed == "failed"

\* uuid.New(): a fresh identifier per call.
NewUUID(p) == p

\* ------------------------------------------------------ service: validation
\* validateTransactionRequest: the error it returns, "" for nil.
validateTransactionRequest(r) ==
  IF r.src <= 0 THEN "invalid source account ID"
  ELSE IF r.dst <= 0 THEN "invalid destination account ID"
  ELSE IF r.src = r.dst THEN "source and destination accounts cannot be the same"
  ELSE IF r.amount = "" THEN "amount cannot be empty"
  ELSE IF ~ParseFloat(r.amount).ok THEN "invalid amount format"
  ELSE IF FloatLessEq(ParseFloat(r.amount).val, Num(0))
       THEN "amount must be greater than zero"
  ELSE ""

\* ------------------------------------------------------- unit of work, holds
\* Mutant of ReleaseHolds: the end of a unit of work releases nothing.
ReleaseHoldsNone(p) == locks

ReleaseHolds(p) == [a \in AccountIDs |-> IF locks[a] = p THEN NoProc ELSE locks[a]]

\* Mutant of Rollback: the deferred call commits what the unit wrote.
RollbackApplies(p) ==
  /\ locks' = ReleaseHolds(p)
  /\ accounts' = [a \in DOMAIN accounts |->
        IF a \in DOMAIN wbal[p] THEN wbal[p][a] ELSE accounts[a]]
  /\ effects' = [effects EXCEPT ![NewUUID(p)] =
        [debit |-> @.debit + (IF req[p].src \in DOMAIN wbal[p] THEN 1 ELSE 0),
         credit |-> @.credit + (IF req[p].dst \in DOMAIN wbal[p] THEN 1 ELSE 0)]]
  /\ wbal' = [wbal EXCEPT ![p] = NoWrites]
  /\ wstat' = [wstat EXCEPT ![p] = FALSE]
  /\ UNCHANGED txns

\* Mutant of Rollback: the aborted unit's record is marked failed.
RollbackMarksFailed(p) ==
  /\ locks' = ReleaseHolds(p)
  /\ wbal' = [wbal EXCEPT ![p] = NoWrites]
  /\ wstat' = [wstat EXCEPT ![p] = FALSE]
  /\ txns' = IF NewUUID(p) \in DOMAIN txns
             THEN [txns EXCEPT ![NewUUID(p)].status = TransactionStatusFailed]
             ELSE txns
  /\ UNCHANGED <<accounts, effects>>

\* Mutant of Rollback: the writes are discarded but the unit of work stays
\* open on its connection, so its row holds are kept.
RollbackKeepsHolds(p) ==
  /\ wbal' = [wbal EXCEPT ![p] = NoWrites]
  /\ wstat' = [wstat EXCEPT ![p] = FALSE]
  /\ UNCHANGED <<accounts, txns, locks, effects>>

\* tx.Rollback(), deferred in Transfer and in Create: the unit's writes are
\* discarded and its row holds released.
Rollback(p) ==
  /\ locks' = ReleaseHolds(p)
  /\ wbal' = [wbal EXCEPT ![p] = NoWrites]
  /\ wstat' = [wstat EXCEPT ![p] = FALSE]
  /\ UNCHANGED <<accounts, txns, effects>>

\* A handler returning err to its caller; its locals are gone.
Return(p, err) ==
  /\ pc' = [pc EXCEPT ![p] = "done"]
  /\ result' = [result EXCEPT ![p] = err]
  /\ req' = [req EXCEPT ![p] = NoReq]
  /\ held' = [held EXCEPT ![p] = NoHeld]
  /\ UNCHANGED got

\* Mutants of LockOrder: the order of the call's arguments; the higher id
\* first.
LockOrderCallSite(sourceAccountID, destinationAccountID) ==
  <<sourceAccountID, destinationAccountID>>

LockOrderHigherFirst(sourceAccountID, destinationAccountID) ==
  IF sourceAccountID < destinationAccountID
  THEN <<destinationAccountID, sourceAccountID>>
  ELSE <<sourceAccountID, destinationAccountID>>

\* The order in which Transfer takes its two holds: the lower id first.
LockOrder(sourceAccountID, destinationAccountID) ==
  IF sourceAccountID < destinationAccountID
  THEN <<sourceAccountID, destinationAccountID>>
  ELSE <<destinationAccountID, sourceAccountID>>

\* Mutants of SufficientFunds: no check; the comparison reversed.
SufficientFundsUnchecked(sourceBalance, txnAmount) == TRUE

SufficientFundsReversed(sourceBalance, txnAmount) == ~FloatLess(txnAmount, sourceBalance)

\* Mutant of SufficientFunds: the comparison is <=, so an amount equal to
\* the balance is refused.
SufficientFundsStrict(sourceBalance, txnAmount) == ~FloatLessEq(sourceBalance, txnAmount)

\* The funds check of Transfer: it returns "insufficient balance" when
\* sourceBalance < txnAmount.
SufficientFunds(sourceBalance, txnAmount) == ~FloatLess(sourceBalance, txnAmount)

\* Mutant of InitialStatus: the record is inserted as completed.
InitialStatusCompleted == TransactionStatusCompleted

\* The status ProcessTransaction gives the record it creates.
InitialStatus == TransactionStatusPending

\* ---------------------------------------------------------- transfer steps
\* ProcessTransaction up to the call of Transfer: validation, then Create
\* (one INSERT, committed on its own) of the pending record.
ProcessTransaction(p, r) ==
  /\ pc[p] = "idle"
  /\ IF validateTransactionRequest(r) # ""
     THEN /\ Return(p, "invalid transaction request")
          /\ UNCHANGED <<accounts, txns, locks, wbal, wstat, stale, effects>>
     ELSE \/ /\ NewUUID(p) \notin DOMAIN txns
             /\ txns' = txns @@ (NewUUID(p) :>
                   [src |-> r.src, dst |-> r.dst,
                    amount |-> NumericFromText(ParseFloat(r.amount).val),
                    status |-> InitialStatus])
             /\ pc' = [pc EXCEPT ![p] = "begin"]
             /\ req' = [req EXCEPT ![p] = r]
             /\ UNCHANGED <<accounts, locks, held, wbal, wstat, stale, result, effects, got>>
          \/ /\ Return(p, "failed to create transaction")
             /\ UNCHANGED <<accounts, txns, locks, wbal, wstat, stale, effects>>

\* Mutant of Create: INSERT ... ON CONFLICT (transaction_id) DO UPDATE, so an
\* existing record is overwritten and the call succeeds.
CreateUpsert(id, transaction) ==
  [ok |-> TRUE,
   txns |-> [t \in DOMAIN txns \cup {id} |->
               IF t = id THEN transaction ELSE txns[t]]]

\* transactionRepository.Create: one INSERT into transactions, whose
\* transaction_id column is UNIQUE; an identifier already present makes the
\* statement fail and leaves the table as it is.
Create(id, transaction) ==
  IF id \in DOMAIN txns
  THEN [ok |-> FALSE, txns |-> txns]
  ELSE [ok |-> TRUE, txns |-> txns @@ (id :> transaction)]

\* ProcessTransaction when uuid.New() yields an identifier that already has a
\* record: Create fails and the service returns before Transfer is called.
ProcessTransactionCollision(p, r, id) ==
  /\ pc[p] = "idle"
  /\ validateTransactionRequest(r) = ""
  /\ id \in DOMAIN txns
  /\ LET created == Create(id, [src |-> r.src, dst |-> r.dst,
                      amount |-> NumericFromText(ParseFloat(r.amount).val),
                      status |-> InitialStatus])
     IN  IF created.ok
         THEN /\ txns' = created.txns
              /\ pc' = [pc EXCEPT ![p] = "begin"]
              /\ req' = [req EXCEPT ![p] = r]
              /\ UNCHANGED <<accounts, locks, held, wbal, wstat, stale, result, effects, got>>
         ELSE /\ Return(p, "failed to create transaction: duplicate key")
              /\ UNCHANGED <<accounts, txns, locks, wbal, wstat, stale, effects>>

\* db.BeginTx of Transfer (READ COMMITTED).
BeginTx(p) ==
  /\ pc[p] = "begin"
  /\ pc' = [pc EXCEPT ![p] = "lock1"]
  /\ UNCHANGED <<accounts, txns, locks, req, held, wbal, wstat, stale, result, effects, got>>

\* Mutant of getByAccountIDWithLock: on a missing row the call returns while
\* the unit of work stays open, so the hold it has is kept.
getByAccountIDWithLockKeepsHold(p, accountID, next) ==
  IF accountID \notin DOMAIN accounts
  THEN /\ Return(p, "account not found")
       /\ UNCHANGED <<accounts, txns, locks, wbal, wstat, stale, effects>>
  ELSE /\ locks[accountID] \in {NoProc, p}
       /\ locks' = [locks EXCEPT ![accountID] = p]
       /\ held' = [held EXCEPT ![p] =
            IF accountID = req[p].src
            THEN [@ EXCEPT !.src = accounts[accountID]]
            ELSE [@ EXCEPT !.dst = accounts[accountID]]]
       /\ pc' = [pc EXCEPT ![p] = next]
       /\ UNCHANGED <<accounts, txns, req, wbal, wstat, stale, result, effects, got>>

\* Mutant of getByAccountIDWithLock: the statement locks the whole accounts
\* table, so it waits while any other unit holds any row.
getByAccountIDWithLockTable(p, accountID, next) ==
  IF accountID \notin DOMAIN accounts
  THEN /\ Rollback(p)
       /\ Return(p, "account not found")
       /\ UNCHANGED stale
  ELSE /\ \A a \in AccountIDs : locks[a] \in {NoProc, p}
       /\ locks' = [locks EXCEPT ![accountID] = p]
       /\ held' = [held EXCEPT ![p] =
            IF accountID = req[p].src
            THEN [@ EXCEPT !.src = accounts[accountID]]
            ELSE [@ EXCEPT !.dst = accounts[accountID]]]
       /\ pc' = [pc EXCEPT ![p] = next]
       /\ UNCHANGED <<accounts, txns, req, wbal, wstat, stale, result, effects, got>>

\* Mutant of getByAccountIDWithLock: the row is read by getByAccountID, a
\* plain SELECT on the pool, which takes no hold and waits for none.
getByAccountIDUnlocked(p, accountID, next) ==
  IF accountID \notin DOMAIN accounts
  THEN /\ Rollback(p)
       /\ Return(p, "account not found")
       /\ UNCHANGED stale
  ELSE /\ held' = [held EXCEPT ![p] =
            IF accountID = req[p].src
            THEN [@ EXCEPT !.src = accounts[accountID]]
            ELSE [@ EXCEPT !.dst = accounts[accountID]]]
       /\ pc' = [pc EXCEPT ![p] = next]
       /\ UNCHANGED <<accounts, txns, locks, req, wbal, wstat, stale, result, effects, got>>

\* Mutant of getByAccountIDWithLock: the statement is FOR UPDATE but does not
\* wait for the holder of the row; it takes the row over.
getByAccountIDWithLockNoWait(p, accountID, next) ==
  IF accountID \notin DOMAIN accounts
  THEN /\ Rollback(p)
       /\ Return(p, "account not found")
       /\ UNCHANGED stale
  ELSE /\ locks' = [locks EXCEPT ![accountID] = p]
       /\ held' = [held EXCEPT ![p] =
            IF accountID = req[p].src
            THEN [@ EXCEPT !.src = accounts[accountID]]
            ELSE [@ EXCEPT !.dst = accounts[accountID]]]
       /\ pc' = [pc EXCEPT ![p] = next]
       /\ UNCHANGED <<accounts, txns, req, wbal, wstat, stale, result, effects, got>>

\* getByAccountIDWithLock: SELECT ... FOR UPDATE under READ COMMITTED.  No
\* committed row: "account not found".  Row held by another unit: the
\* statement waits.  Otherwise the hold is taken and the latest committed
\* balance is read.
getByAccountIDWithLock(p, accountID, next) ==
  IF accountID \notin DOMAIN accounts
  THEN /\ Rollback(p)
       /\ Return(p, "account not found")
       /\ UNCHANGED stale
  ELSE /\ locks[accountID] \in {NoProc, p}
       /\ locks' = [locks EXCEPT ![accountID] = p]
       /\ held' = [held EXCEPT ![p] =
            IF accountID = req[p].src
            THEN [@ EXCEPT !.src = accounts[accountID]]
            ELSE [@ EXCEPT !.dst = accounts[accountID]]]
       /\ pc' = [pc EXCEPT ![p] = next]
       /\ UNCHANGED <<accounts, txns, req, wbal, wstat, stale, result, effects, got>>

\* Mutant of LockFirst: Transfer goes on to the funds check after the first
\* getByAccountIDWithLock, without asking for the second row.
LockFirstSkipsSecond(p) ==
  /\ pc[p] = "lock1"
  /\ getByAccountIDWithLock(p, LockOrder(req[p].src, req[p].dst)[1], "check")

LockFirst(p) ==
  /\ pc[p] = "lock1"
  /\ getByAccountIDWithLock(p, LockOrder(req[p].src, req[p].dst)[1], "lock2")

LockSecond(p) ==
  /\ pc[p] = "lock2"
  /\ getByAccountIDWithLock(p, LockOrder(req[p].src, req[p].dst)[2], "check")

\* Parsing the amount and the source balance, and the funds check.
CheckFunds(p) ==
  /\ pc[p] = "check"
  /\ IF ~ParseFloat(req[p].amount).ok
     THEN /\ Rollback(p)
          /\ Return(p, "failed to parse transaction amount")
     ELSE IF ~SufficientFunds(BalanceToFloat(held[p].src), ParseFloat(req[p].amount).val)
     THEN /\ Rollback(p)
          /\ Return(p, "insufficient balance")
     ELSE /\ pc' = [pc EXCEPT ![p] = "update_src"]
          /\ UNCHANGED <<accounts, txns, locks, req, held, wbal, wstat, result, effects, got>>
  /\ UNCHANGED stale

\* Mutant of ExecUpdateBalance: the UPDATE runs on the pool (r.db) instead
\* of the unit of work, so it is committed on its own.
ExecUpdateBalanceAutocommit(p, accountID, balance) ==
  /\ accounts' = [accounts EXCEPT ![accountID] = balance]
  /\ effects' = [effects EXCEPT ![NewUUID(p)] =
        IF accountID = req[p].src
        THEN [@ EXCEPT !.debit = @ + 1]
        ELSE [@ EXCEPT !.credit = @ + 1]]
  /\ UNCHANGED wbal

\* tx.ExecContext("UPDATE accounts SET balance = $1 WHERE account_id = $2"):
\* a write of the unit of work, invisible until Commit.
\* Mutant of ExecUpdateBalance: the UPDATE has no WHERE clause, so it writes
\* the balance to every account row.
ExecUpdateBalanceAll(p, accountID, balance) ==
  /\ wbal' = [wbal EXCEPT ![p] = [a \in DOMAIN accounts |-> balance]]
  /\ UNCHANGED <<accounts, effects>>

ExecUpdateBalance(p, accountID, balance) ==
  /\ wbal' = [wbal EXCEPT ![p] =
       [a \in DOMAIN @ \cup {accountID} |-> IF a = accountID THEN balance ELSE @[a]]]
  /\ UNCHANGED <<accounts, effects>>

UpdateSource(p) ==
  /\ pc[p] = "update_src"
  /\ \E v \in NumericFromFloat(FloatSub(BalanceToFloat(held[p].src),
                                        ParseFloat(req[p].amount).val)) :
       ExecUpdateBalance(p, req[p].src, v)
  /\ pc' = [pc EXCEPT ![p] = "update_dst"]
  /\ UNCHANGED <<txns, locks, req, held, wstat, stale, result, got>>

UpdateDestination(p) ==
  /\ pc[p] = "update_dst"
  /\ \E v \in NumericFromFloat(FloatAdd(BalanceToFloat(held[p].dst),
                                        ParseFloat(req[p].amount).val)) :
       ExecUpdateBalance(p, req[p].dst, v)
  /\ pc' = [pc EXCEPT ![p] = "update_status"]
  /\ UNCHANGED <<txns, locks, req, held, wstat, stale, result, got>>

\* Mutant of ExecUpdateStatus: the UPDATE runs on the pool (r.db) instead of
\* the unit of work, so it is committed on its own.
ExecUpdateStatusAutocommit(p) ==
  /\ txns' = [txns EXCEPT ![NewUUID(p)].status = TransactionStatusCompleted]
  /\ UNCHANGED wstat

\* tx.ExecContext("UPDATE transactions SET status = $1 WHERE transaction_id = $2").
ExecUpdateStatus(p) ==
  /\ wstat' = [wstat EXCEPT ![p] = TRUE]
  /\ UNCHANGED txns

UpdateStatus(p) ==
  /\ pc[p] = "update_status"
  /\ ExecUpdateStatus(p)
  /\ pc' = [pc EXCEPT ![p] = "commit"]
  /\ UNCHANGED <<accounts, locks, req, held, wbal, stale, result, effects, got>>

\* The REPEATABLE READ statements waiting for a row this unit replaces.
Outdated(p) ==
  {q \in Procs : pc[q] = "ca_wait" /\ req[q].account_id \in DOMAIN wbal[p]}

\* Mutant of Commit: the status UPDATE has no WHERE clause, so the commit
\* marks every record completed.
CommitMarksAll(p) ==
  /\ pc[p] = "commit"
  /\ accounts' = [a \in DOMAIN accounts |->
        IF a \in DOMAIN wbal[p] THEN wbal[p][a] ELSE accounts[a]]
  /\ txns' = IF wstat[p]
             THEN [t \in DOMAIN txns |->
                     [txns[t] EXCEPT !.status = TransactionStatusCompleted]]
             ELSE txns
  /\ effects' = [effects EXCEPT ![NewUUID(p)] =
        [debit |-> @.debit + (IF req[p].src \in DOMAIN wbal[p] THEN 1 ELSE 0),
         credit |-> @.credit + (IF req[p].dst \in DOMAIN wbal[p] THEN 1 ELSE 0)]]
  /\ locks' = ReleaseHolds(p)
  /\ wbal' = [wbal EXCEPT ![p] = NoWrites]
  /\ wstat' = [wstat EXCEPT ![p] = FALSE]
  /\ stale' = stale \cup Outdated(p)
  /\ Return(p, "")

\* tx.Commit() of Transfer: the unit's writes become the committed state in
\* one step and its holds are released.
Commit(p) ==
  /\ pc[p] = "commit"
  /\ accounts' = [a \in DOMAIN accounts |->
        IF a \in DOMAIN wbal[p] THEN wbal[p][a] ELSE accounts[a]]
  /\ txns' = IF wstat[p] /\ NewUUID(p) \in DOMAIN txns
             THEN [txns EXCEPT ![NewUUID(p)].status = TransactionStatusCompleted]
             ELSE txns
  /\ effects' = [effects EXCEPT ![NewUUID(p)] =
        [debit |-> @.debit + (IF req[p].src \in DOMAIN wbal[p] THEN 1 ELSE 0),
         credit |-> @.credit + (IF req[p].dst \in DOMAIN wbal[p] THEN 1 ELSE 0)]]
  /\ locks' = ReleaseHolds(p)
  /\ wbal' = [wbal EXCEPT ![p] = NoWrites]
  /\ wstat' = [wstat EXCEPT ![p] = FALSE]
  /\ stale' = stale \cup Outdated(p)
  /\ Return(p, "")

\* ----------------------------------------------------- create-account steps
\* accountService.CreateAccount and validateBalance: the error, "" for nil.
validateCreateAccount(r) ==
  IF r.account_id <= 0 THEN "invalid account ID"
  ELSE IF r.initial_balance = "" THEN "invalid initial balance"
  ELSE IF ~ParseFloat(r.initial_balance).ok THEN "invalid initial balance"
  ELSE ""

\* accountService.CreateAccount up to the first statement of
\* accountRepository.Create: validation, then db.BeginTx (REPEATABLE READ).
CreateAccount(p, r) ==
  /\ pc[p] = "idle"
  /\ IF validateCreateAccount(r) # ""
     THEN /\ Return(p, validateCreateAccount(r))
          /\ UNCHANGED <<accounts, txns, locks, wbal, wstat, stale, effects>>
     ELSE \/ /\ pc' = [pc EXCEPT ![p] = "ca_exists"]
             /\ req' = [req EXCEPT ![p] = r]
             /\ UNCHANGED <<accounts, txns, locks, held, wbal, wstat, stale, result, effects, got>>
          \/ /\ Return(p, "failed to begin transaction")
             /\ UNCHANGED <<accounts, txns, locks, wbal, wstat, stale, effects>>

\* accountExistsWithLock: SELECT EXISTS(SELECT 1 ... FOR UPDATE), the first
\* statement of a REPEATABLE READ unit.  No committed row: false, no hold.
\* A free row: the hold is taken, true.  A row held by another unit: the
\* statement waits.
accountExistsWithLock(p) ==
  /\ pc[p] = "ca_exists"
  /\ IF req[p].account_id \notin DOMAIN accounts
     THEN /\ pc' = [pc EXCEPT ![p] = "ca_insert"]
          /\ UNCHANGED locks
     ELSE IF locks[req[p].account_id] = NoProc
     THEN /\ pc' = [pc EXCEPT ![p] = "ca_found"]
          /\ locks' = [locks EXCEPT ![req[p].account_id] = p]
     ELSE /\ pc' = [pc EXCEPT ![p] = "ca_wait"]
          /\ UNCHANGED locks
  /\ UNCHANGED <<accounts, txns, req, held, wbal, wstat, stale, result, effects, got>>

\* The waiting statement resumes when the row is released: it takes the
\* hold, unless the holder committed a new version of the row, which under
\* REPEATABLE READ fails the statement (could not serialize access).
accountExistsResume(p) ==
  /\ pc[p] = "ca_wait"
  /\ locks[req[p].account_id] = NoProc
  /\ IF p \in stale
     THEN /\ Rollback(p)
          /\ Return(p, "failed to check account existence")
          /\ stale' = stale \ {p}
     ELSE /\ pc' = [pc EXCEPT ![p] = "ca_found"]
          /\ locks' = [locks EXCEPT ![req[p].account_id] = p]
          /\ UNCHANGED <<accounts, txns, req, held, wbal, wstat, stale, result, effects, got>>

\* exists: Create returns "account with ID %d already exists"; the deferred
\* Rollback releases the hold.
AccountExists(p) ==
  /\ pc[p] = "ca_found"
  /\ Rollback(p)
  /\ Return(p, "account already exists")
  /\ UNCHANGED stale

\* INSERT INTO accounts.  account_id is UNIQUE: the statement waits while
\* another unit holds an uncommitted row of the same id, and fails when a
\* committed row of that id exists by now.
InsertAccount(p) ==
  /\ pc[p] = "ca_insert"
  /\ \A q \in Procs \ {p} : req[p].account_id \notin DOMAIN wbal[q]
  /\ IF req[p].account_id \in DOMAIN accounts
     THEN /\ Rollback(p)
          /\ Return(p, "failed to create account: duplicate key")
     ELSE /\ wbal' = [wbal EXCEPT ![p] = (req[p].account_id :>
                          NumericFromText(ParseFloat(req[p].initial_balance).val))]
          /\ pc' = [pc EXCEPT ![p] = "ca_commit"]
          /\ UNCHANGED <<accounts, txns, locks, req, held, wstat, result, effects, got>>
  /\ UNCHANGED stale

\* tx.Commit() of Create: the new row becomes visible.
CommitAccount(p) ==
  /\ pc[p] = "ca_commit"
  /\ accounts' = accounts @@ wbal[p]
  /\ locks' = ReleaseHolds(p)
  /\ wbal' = [wbal EXCEPT ![p] = NoWrites]
  /\ Return(p, "")
  /\ UNCHANGED <<txns, wstat, stale, effects>>

\* -------------------------------------------------------------- get-account
\* Mutant of GetByAccountID: the read sees a row version a unit of work
\* wrote and has not committed.
GetByAccountIDDirty(accountID) ==
  IF accountID \notin DOMAIN accounts
  THEN [account_id |-> accountID, found |-> FALSE, balance |-> Decimal(0)]
  ELSE [account_id |-> accountID, found |-> TRUE,
        balance |-> IF \E q \in Procs : accountID \in DOMAIN wbal[q]
                    THEN wbal[CHOOSE q \in Procs : accountID \in DOMAIN wbal[q]][accountID]
                    ELSE accounts[accountID]]

\* accountRepository.GetByAccountID: a plain SELECT on the pool (r.db),
\* outside any unit of work: the committed row, or sql.ErrNoRows.
GetByAccountID(accountID) ==
  IF accountID \notin DOMAIN accounts
  THEN [account_id |-> accountID, found |-> FALSE, balance |-> Decimal(0)]
  ELSE [account_id |-> accountID, found |-> TRUE, balance |-> accounts[accountID]]

\* accountService.GetAccount: one statement; it returns the account, or
\* "account not found", or the error of a failed store call.
GetAccount(p, accountID) ==
  /\ pc[p] = "idle"
  /\ pc' = [pc EXCEPT ![p] = "done"]
  /\ \/ /\ got' = [got EXCEPT ![p] = GetByAccountID(accountID)]
        /\ result' = [result EXCEPT ![p] =
              IF GetByAccountID(accountID).found THEN "" ELSE "account not found"]
     \/ /\ result' = [result EXCEPT ![p] = "failed to get account"]
        /\ UNCHANGED got
  /\ UNCHANGED <<accounts, txns, locks, req, held, wbal, wstat, stale, effects>>

\* AccountHandler.GetAccount: the response for the error the service
\* returned ("" for nil).
GetAccountHandlerResponse(err) ==
  IF err # ""
  THEN [code |-> "ACCOUNT_NOT_FOUND", status |-> 404]
  ELSE [code |-> "", status |-> 200]

\* ------------------------------------------------------------ store errors
\* The error a handler returns when the store call it is at fails.
StoreErrorAt(at) ==
  CASE at = "begin"         -> "failed to begin transaction"
    [] at = "lock1"         -> "failed to get account"
    [] at = "lock2"         -> "failed to get account"
    [] at = "update_src"    -> "failed to update source account"
    [] at = "update_dst"    -> "failed to update destination account"
    [] at = "update_status" -> "failed to update transaction"
    [] at = "commit"        -> "commit failed"
    [] at = "ca_exists"     -> "failed to check account existence"
    [] at = "ca_wait"       -> "failed to check account existence"
    [] at = "ca_insert"     -> "failed to create account"
    [] at = "ca_commit"     -> "commit failed"

InUnitOfWork ==
  {"begin", "lock1", "lock2", "update_src", "update_dst", "update_status", "commit",
   "ca_exists", "ca_wait", "ca_insert", "ca_commit"}

\* Mutant of StoreError: when a store call of a transfer fails, the unit of
\* work is rolled back and the transfer is run again from BeginTx.
StoreErrorRetries(p) ==
  /\ pc[p] \in InUnitOfWork
  /\ Rollback(p)
  /\ IF pc[p] \in {"ca_exists", "ca_wait", "ca_insert", "ca_commit"}
     THEN Return(p, StoreErrorAt(pc[p]))
     ELSE /\ pc' = [pc EXCEPT ![p] = "begin"]
          /\ held' = [held EXCEPT ![p] = NoHeld]
          /\ UNCHANGED <<req, result, got>>
  /\ stale' = stale \ {p}

\* A store call of the unit of work fails (connection loss, the context's
\* deadline, also while the call waits for a hold): the handler returns the
\* error and the deferred Rollback runs.
StoreError(p) ==
  /\ pc[p] \in InUnitOfWork
  /\ Rollback(p)
  /\ Return(p, StoreErrorAt(pc[p]))
  /\ stale' = stale \ {p}

\* ---------------------------------------------------------------- handlers
\* TransactionHandler.ProcessTransaction once the request passed the
\* handler's own checks: the response for the error the service returned
\* ("" for nil).  sendJSONError writes the code and the HTTP status.
TransactionHandlerResponse(err) ==
  IF err # ""
  THEN [code |-> "TRANSACTION_FAILED", status |-> 400]
  ELSE [code |-> "", status |-> 200]

\* The first 25 bytes of the text of the error accountService.CreateAccount
\* returns, for the requests that pass the handler's own checks: the service
\* wraps every error of the repository in "failed to create account: %w" and
\* a refused balance in "invalid initial balance: %w".
ErrorPrefix25(err) ==
  IF err = "invalid initial balance"
  THEN "invalid initial balance: "
  ELSE "failed to create account:"

\* isDuplicateAccountError: errMsg[:25] == "account with ID".
isDuplicateAccountError(err) ==
  err # "" /\ ErrorPrefix25(err) = "account with ID"

\* AccountHandler.CreateAccount once the request passed the handler's own
\* checks: the response for the error the service returned ("" for nil).
AccountHandlerResponse(err) ==
  IF err # ""
  THEN IF isDuplicateAccountError(err)
       THEN [code |-> "ACCOUNT_ALREADY_EXISTS", status |-> 409]
       ELSE [code |-> "CREATE_ACCOUNT_FAILED", status |-> 400]
  ELSE [code |-> "", status |-> 201]

\* ------------------------------------------------------------ specification
\* The requests of Spec: identifier 0 is malformed, NumAccounts + 1 is well
\* formed but has no row.
Requests == [src : 0..(NumAccounts + 1), dst : 0..(NumAccounts + 1), amount : AmountStrings]

\* Accounts 1..NumAccounts were created with InitBalance quanta each; no
\* request is in flight.
Init ==
  /\ accounts = [a \in 1..NumAccounts |-> Decimal(InitBalance)]
  /\ txns = [t \in {} |-> 0]
  /\ locks = [a \in 1..(NumAccounts + 1) |-> NoProc]
  /\ pc = [p \in 1..NumProcs |-> "idle"]
  /\ req = [p \in 1..NumProcs |-> NoReq]
  /\ held = [p \in 1..NumProcs |-> NoHeld]
  /\ wbal = [p \in 1..NumProcs |-> NoWrites]
  /\ wstat = [p \in 1..NumProcs |-> FALSE]
  /\ stale = {}
  /\ result = [p \in 1..NumProcs |-> "running"]
  /\ effects = [t \in 1..NumProcs |-> NoEffect]
  /\ got = [p \in 1..NumProcs |-> NoAccount]

TransferStep(p) ==
  \/ BeginTx(p)
  \/ LockFirst(p)
  \/ LockSecond(p)
  \/ CheckFunds(p)
  \/ UpdateSource(p)
  \/ UpdateDestination(p)
  \/ UpdateStatus(p)
  \/ Commit(p)

Next ==
  \/ \E p \in Procs : \E r \in Requests : ProcessTransaction(p, r)
  \/ \E p \in Procs : BeginTx(p)
  \/ \E p \in Procs : LockFirst(p)
  \/ \E p \in Procs : LockSecond(p)
  \/ \E p \in Procs : CheckFunds(p)
  \/ \E p \in Procs : UpdateSource(p)
  \/ \E p \in Procs : UpdateDestination(p)
  \/ \E p \in Procs : UpdateStatus(p)
  \/ \E p \in Procs : Commit(p)
  \/ \E p \in Procs : StoreError(p)

Spec == Init /\ [][Next]_vars

\* The scheduling of the requests: every request that can take a step of
\* its own (a store call that is not waiting for a hold, or the return that
\* follows it) eventually takes one.  Store errors are possible, never due.
Progress(p) == (\E r \in Requests : ProcessTransaction(p, r)) \/ TransferStep(p)

FairSpec == Spec /\ \A p \in 1..NumProcs : WF_vars(Progress(p))

\* The repository's Transfer called once more for a transaction identifier
\* whose record is completed, with the arguments of the first call.
ReplayTransfer(p, amount) ==
  /\ pc[p] = "done"
  /\ NewUUID(p) \in DOMAIN txns
  /\ txns[NewUUID(p)].status = TransactionStatusCompleted
  /\ effects[NewUUID(p)].debit < 2
  /\ ParseFloat(amount).ok
  /\ NumericFromText(ParseFloat(amount).val) = txns[NewUUID(p)].amount
  /\ pc' = [pc EXCEPT ![p] = "begin"]
  /\ req' = [req EXCEPT ![p] = [src |-> txns[NewUUID(p)].src,
                                dst |-> txns[NewUUID(p)].dst,
                                amount |-> amount]]
  /\ result' = [result EXCEPT ![p] = "running"]
  /\ UNCHANGED <<accounts, txns, locks, held, wbal, wstat, stale, effects, got>>

NextReplay ==
  \/ Next
  \/ \E p \in Procs : \E amount \in AmountStrings : ReplayTransfer(p, amount)

SpecReplay == Init /\ [][NextReplay]_vars

\* Transfers in which uuid.New() may yield an identifier already in use.
NextCollision ==
  \/ Next
  \/ \E p \in Procs : \E r \in Requests : \E id \in DOMAIN txns :
       ProcessTransactionCollision(p, r, id)

SpecCollision == Init /\ [][NextCollision]_vars

\* Transfers and account creations together, over RingSize accounts and one
\* identifier without a row, by RingSize concurrent requests.
RingTransfers == [src : 1..RingSize, dst : 1..RingSize, amount : {"0.00000001"}]
RingAccounts == [account_id : 1..(RingSize + 1), initial_balance : {"0.00000001"}]

InitAccounts ==
  /\ accounts = [a \in 1..RingSize |-> Decimal(InitBalance)]
  /\ txns = [t \in {} |-> 0]
  /\ locks = [a \in 1..(RingSize + 1) |-> NoProc]
  /\ pc = [p \in 1..RingSize |-> "idle"]
  /\ req = [p \in 1..RingSize |-> NoReq]
  /\ held = [p \in 1..RingSize |-> NoHeld]
  /\ wbal = [p \in 1..RingSize |-> NoWrites]
  /\ wstat = [p \in 1..RingSize |-> FALSE]
  /\ stale = {}
  /\ result = [p \in 1..RingSize |-> "running"]
  /\ effects = [t \in 1..RingSize |-> NoEffect]
  /\ got = [p \in 1..RingSize |-> NoAccount]

NextAccounts ==
  \/ \E p \in Procs : \E r \in RingTransfers : ProcessTransaction(p, r)
  \/ \E p \in Procs : BeginTx(p)
  \/ \E p \in Procs : LockFirst(p)
  \/ \E p \in Procs : LockSecond(p)
  \/ \E p \in Procs : CheckFunds(p)
  \/ \E p \in Procs : UpdateSource(p)
  \/ \E p \in Procs : UpdateDestination(p)
  \/ \E p \in Procs : UpdateStatus(p)
  \/ \E p \in Procs : Commit(p)
  \/ \E p \in Procs : StoreError(p)
  \/ \E p \in Procs : \E r \in RingAccounts : CreateAccount(p, r)
  \/ \E p \in Procs : accountExistsWithLock(p)
  \/ \E p \in Procs : accountExistsResume(p)
  \/ \E p \in Procs : AccountExists(p)
  \/ \E p \in Procs : InsertAccount(p)
  \/ \E p \in Procs : CommitAccount(p)

SpecAccounts == InitAccounts /\ [][NextAccounts]_vars

\* Account creations alone: NumProcs concurrent CreateAccount requests over
\* the existing identifiers, a malformed one (0) and one without a row.
CreateAccountRequests ==
  [account_id : 0..(NumAccounts + 1), initial_balance : AmountStrings]

NextCreate ==
  \/ \E p \in Procs : \E r \in CreateAccountRequests : CreateAccount(p, r)
  \/ \E p \in Procs : accountExistsWithLock(p)
  \/ \E p \in Procs : accountExistsResume(p)
  \/ \E p \in Procs : AccountExists(p)
  \/ \E p \in Procs : InsertAccount(p)
  \/ \E p \in Procs : CommitAccount(p)
  \/ \E p \in Procs : StoreError(p)

SpecCreate == Init /\ [][NextCreate]_vars

\* Transfers with GetAccount requests beside them.
NextRead ==
  \/ Next
  \/ \E p \in Procs : \E accountID \in AccountIDs : GetAccount(p, accountID)

SpecRead == Init /\ [][NextRead]_vars

\* The three operations of the service side by side: transfers, account
\* creations and account reads.
NextService ==
  \/ \E p \in Procs : \E r \in Requests : ProcessTransaction(p, r)
  \/ \E p \in Procs : BeginTx(p)
  \/ \E p \in Procs : LockFirst(p)
  \/ \E p \in Procs : LockSecond(p)
  \/ \E p \in Procs : CheckFunds(p)
  \/ \E p \in Procs : UpdateSource(p)
  \/ \E p \in Procs : UpdateDestination(p)
  \/ \E p \in Procs : UpdateStatus(p)
  \/ \E p \in Procs : Commit(p)
  \/ \E p \in Procs : \E r \in CreateAccountRequests : CreateAccount(p, r)
  \/ \E p \in Procs : accountExistsWithLock(p)
  \/ \E p \in Procs : accountExistsResume(p)
  \/ \E p \in Procs : AccountExists(p)
  \/ \E p \in Procs : InsertAccount(p)
  \/ \E p \in Procs : CommitAccount(p)
  \/ \E p \in Procs : \E accountID \in AccountIDs : GetAccount(p, accountID)
  \/ \E p \in Procs : StoreError(p)

SpecService == Init /\ [][NextService]_vars

\* Transfers over PairAccounts existing accounts, enough for two transfers
\* with no account in common.
PairTransfers == [src : 1..PairAccounts, dst : 1..PairAccounts, amount : {"0.00000001"}]

InitPairs ==
  /\ accounts = [a \in 1..PairAccounts |-> Decimal(InitBalance)]
  /\ txns = [t \in {} |-> 0]
  /\ locks = [a \in 1..PairAccounts |-> NoProc]
  /\ pc = [p \in 1..NumProcs |-> "idle"]
  /\ req = [p \in 1..NumProcs |-> NoReq]
  /\ held = [p \in 1..NumProcs |-> NoHeld]
  /\ wbal = [p \in 1..NumProcs |-> NoWrites]
  /\ wstat = [p \in 1..NumProcs |-> FALSE]
  /\ stale = {}
  /\ result = [p \in 1..NumProcs |-> "running"]
  /\ effects = [t \in 1..NumProcs |-> NoEffect]
  /\ got = [p \in 1..NumProcs |-> NoAccount]

NextPairs ==
  \/ \E p \in Procs : \E r \in PairTransfers : ProcessTransaction(p, r)
  \/ \E p \in Procs : BeginTx(p)
  \/ \E p \in Procs : LockFirst(p)
  \/ \E p \in Procs : LockSecond(p)
  \/ \E p \in Procs : CheckFunds(p)
  \/ \E p \in Procs : UpdateSource(p)
  \/ \E p \in Procs : UpdateDestination(p)
  \/ \E p \in Procs : UpdateStatus(p)
  \/ \E p \in Procs : Commit(p)
  \/ \E p \in Procs : StoreError(p)

SpecPairs == InitPairs /\ [][NextPairs]_vars

\* Transfer run alone, from begin to end, on the committed balances accts:
\* the outcomes it can have (its error, "" for nil, and the balances after).
TransferAlone(accts, r) ==
  IF r.src \notin DOMAIN accts \/ r.dst \notin DOMAIN accts
  THEN {[err |-> "account not found", accounts |-> accts]}
  ELSE LET txnAmount == ParseFloat(r.amount).val
           sourceBalance == BalanceToFloat(accts[r.src])
           destinationBalance == BalanceToFloat(accts[r.dst])
       IN  IF ~SufficientFunds(sourceBalance, txnAmount)
           THEN {[err |-> "insufficient balance", accounts |-> accts]}
           ELSE {[err |-> "",
                  accounts |-> [a \in DOMAIN accts |->
                                  IF a = r.dst THEN v[2]
                                  ELSE IF a = r.src THEN v[1]
                                  ELSE accts[a]]] :
                   v \in NumericFromFloat(FloatSub(sourceBalance, txnAmount))
                          \X NumericFromFloat(FloatAdd(destinationBalance, txnAmount))}

\* ------------------------------------------------------------------ claims
RECURSIVE SumOver(_, _)
SumOver(f, S) ==
  IF S = {} THEN 0
  ELSE LET a == CHOOSE x \in S : TRUE IN f[a].q + SumOver(f, S \ {a})

\* The sum of the committed balances, in quanta.
TotalBalance == SumOver(accounts, DOMAIN accounts)

TransferPCs ==
  {"begin", "lock1", "lock2", "check", "update_src", "update_dst", "update_status", "commit"}
InTransfer(p) == pc[p] \in TransferPCs
Holds(p) == {a \in AccountIDs : locks[a] = p}
LowerID(p) == IF req[p].src < req[p].dst THEN req[p].src ELSE req[p].dst
HigherID(p) == IF req[p].src < req[p].dst THEN req[p].dst ELSE req[p].src

\* C1: in every committed state reached by concurrent transfers among the
\* fixed accounts, every balance is a number and the balances sum to the
\* sum before the first transfer.
ConservationOfFunds ==
  /\ \A a \in DOMAIN accounts : ~accounts[a].nan
  /\ TotalBalance = NumAccounts * InitBalance

\* C2: starting from balances >= 0, no interleaving of transfers reaches a
\* committed state in which an account balance is < 0.
NoNegativeBalance ==
  \A a \in DOMAIN accounts : accounts[a].nan \/ accounts[a].q >= 0

\* C2 witness: two transfers drained the same source; one completed and
\* left it at 0, the other was refused.
DrainedSource ==
  \E p, q \in Procs :
    /\ p # q /\ pc[p] = "done" /\ pc[q] = "done"
    /\ result[p] = "" /\ result[q] = "insufficient balance"
    /\ txns[NewUUID(p)].src = txns[NewUUID(q)].src
    /\ accounts[txns[NewUUID(p)].src] = Decimal(0)

\* C3: in every committed state each transfer has its debit and its credit
\* both committed or neither, whatever step its unit of work failed at.
AllOrNothing ==
  \A t \in DOMAIN effects : effects[t].debit = effects[t].credit

\* C3 witness: one unit of work failed after its debit was written and
\* before its credit was, another committed both.
FailedBetweenWrites ==
  \E p, q \in Procs :
    /\ result[p] = "failed to update destination account"
    /\ effects[NewUUID(p)] = NoEffect
    /\ effects[NewUUID(q)] = [debit |-> 1, credit |-> 1]

\* C4: under fair scheduling every transfer that was started, whatever the
\* directions of the transfers running with it between the same accounts,
\* eventually returns (committed or aborted).
TransfersTerminate ==
  \A p \in 1..NumProcs : (pc[p] = "begin") ~> (pc[p] = "done")

\* C4 witness: two transfers in opposite directions between the same two
\* accounts are in flight; one holds both rows, the other waits for its
\* first hold.
OppositeDirectionsInFlight ==
  \E p, q \in Procs :
    /\ pc[p] \in {"check", "update_src", "update_dst", "update_status", "commit"}
    /\ pc[q] = "lock1"
    /\ req[q].src = req[p].dst /\ req[q].dst = req[p].src
    /\ locks[LowerID(q)] = p

\* The row the statement a request is at asks a hold for.
RequestedRows(p) ==
  IF pc[p] = "lock1" THEN {LockOrder(req[p].src, req[p].dst)[1]}
  ELSE IF pc[p] = "lock2" THEN {LockOrder(req[p].src, req[p].dst)[2]}
  ELSE IF pc[p] = "ca_wait" THEN {req[p].account_id}
  ELSE {}

\* The units of work a request is waiting for: the holders of the row it
\* asks for, and for an INSERT the units with an uncommitted row of its id.
Blockers(p) ==
  {q \in Procs \ {p} : \E a \in RequestedRows(p) : locks[a] = q}
  \cup (IF pc[p] = "ca_insert"
        THEN {q \in Procs \ {p} : req[p].account_id \in DOMAIN wbal[q]}
        ELSE {})

\* C5: no set of units of work is such that each of them waits for a hold
\* owned by another unit of the set.
NoWaitCycle ==
  \A S \in SUBSET Procs :
    S # {} => \E p \in S : Blockers(p) \cap S = {}

\* C5 witness: the transfers 1->2, 2->3, ..., RingSize->1 are in flight
\* together and at least two of them wait for a hold.
RingInFlight ==
  /\ \A p \in Procs : pc[p] \in TransferPCs \ {"begin"}
  /\ {<<req[p].src, req[p].dst>> : p \in Procs}
       = {<<a, (a % RingSize) + 1>> : a \in 1..RingSize}
  /\ Cardinality({p \in Procs : Blockers(p) # {}}) >= 2

\* C6: a transfer asks for the hold on its smaller identifier first and for
\* the larger one only once it has the first; whichever of the two is the
\* source.
CanonicalLockOrder ==
  \A p \in Procs : InTransfer(p) =>
    /\ pc[p] \in {"begin", "lock1"} => Holds(p) = {}
    /\ pc[p] = "lock2" => Holds(p) = {LowerID(p)}
    /\ pc[p] \notin {"begin", "lock1", "lock2"} => Holds(p) = {LowerID(p), HigherID(p)}

\* C6 witness: a transfer whose destination is the smaller identifier holds
\* it and is about to ask for its source, while the transfer in the opposite
\* direction waits for that same first hold.
OppositeDirectionsSameOrder ==
  \E p, q \in Procs :
    /\ pc[p] = "lock2" /\ pc[q] = "lock1"
    /\ req[p].dst < req[p].src
    /\ req[q].src = req[p].dst /\ req[q].dst = req[p].src
    /\ Holds(p) = {req[p].dst}

\* C7: when the source balance read under hold is below the amount, the
\* funds check ends the call with "insufficient balance"; the step changes no
\* committed balance, both balances are still the ones read under hold, no
\* write of the unit survives and the transfer has no committed effect.
InsufficientFundsAborts ==
  [][\A p \in Procs :
       (/\ pc[p] = "check"
        /\ pc'[p] # "check"
        /\ FloatLess(BalanceToFloat(held[p].src), ParseFloat(req[p].amount).val))
       => /\ result'[p] = "insufficient balance"
          /\ accounts' = accounts
          /\ accounts[req[p].src] = held[p].src
          /\ accounts[req[p].dst] = held[p].dst
          /\ wbal'[p] = NoWrites
          /\ effects'[NewUUID(p)] = NoEffect]_vars

\* C7 witness: a transfer was refused for insufficient funds.
RefusedForFunds ==
  \E p \in Procs :
    /\ result[p] = "insufficient balance"
    /\ txns[NewUUID(p)].status = TransactionStatusPending
    /\ effects[NewUUID(p)] = NoEffect

\* C8: the balance delta of a transaction identifier is committed at most
\* once, also when Transfer is called again for a completed identifier.
AtMostOneEffect ==
  \A t \in DOMAIN effects : effects[t].debit <= 1 /\ effects[t].credit <= 1

\* C9: a record is completed in a committed state exactly when the debit
\* and the credit of its transfer are committed.
RecordCertifiesMutation ==
  \A t \in DOMAIN txns :
    txns[t].status = TransactionStatusCompleted
      <=> (effects[t].debit >= 1 /\ effects[t].credit >= 1)

\* C9 witness: a completed record with its debit and credit committed, next
\* to a record whose unit of work failed at commit and stayed pending.
CompletedAndAbandoned ==
  \E t, u \in DOMAIN txns :
    /\ txns[t].status = TransactionStatusCompleted
    /\ effects[t] = [debit |-> 1, credit |-> 1]
    /\ result[u] = "commit failed"
    /\ txns[u].status = TransactionStatusPending

\* C10: a record is created pending; its status then changes only from
\* pending to completed or failed, and a completed or failed record keeps
\* its status.
StatusTransitions ==
  [][\A t \in DOMAIN txns' :
       IF t \in DOMAIN txns
       THEN \/ txns'[t].status = txns[t].status
            \/ /\ txns[t].status = TransactionStatusPending
               /\ txns'[t].status \in {TransactionStatusCompleted, TransactionStatusFailed}
       ELSE txns'[t].status = TransactionStatusPending]_vars

\* C10 witness: one record went from pending to completed while another,
\* whose transfer was refused, is still pending.
CompletedNextToPending ==
  \E t, u \in DOMAIN txns :
    /\ txns[t].status = TransactionStatusCompleted
    /\ txns[u].status = TransactionStatusPending
    /\ result[u] = "insufficient balance"


\* The store calls of Transfer and the errors Transfer returns when one of
\* them fails.
TransferStorePCs ==
  {"begin", "lock1", "lock2", "update_src", "update_dst", "update_status", "commit"}
TransferStoreErrors == {StoreErrorAt(at) : at \in TransferStorePCs}

\* C11: after a transfer's unit of work failed at a store call (begin, hold
\* acquisition, a write, commit), no balance write of that transfer is
\* committed or left in the unit and its record is pending.
StoreFailureLeavesNoTrace ==
  \A p \in Procs : result[p] \in TransferStoreErrors =>
    /\ effects[NewUUID(p)] = NoEffect
    /\ wbal[p] = NoWrites /\ ~wstat[p]
    /\ txns[NewUUID(p)].status = TransactionStatusPending

\* C11 witness: one unit of work failed at commit, after all its writes, and
\* another at its first write; both records are pending and the balances
\* are the initial ones.
FailedAtCommitAndAtWrite ==
  \E p, q \in Procs :
    /\ result[p] = "commit failed"
    /\ result[q] = "failed to update source account"
    /\ txns[NewUUID(p)].status = TransactionStatusPending
    /\ txns[NewUUID(q)].status = TransactionStatusPending
    /\ \A a \in DOMAIN accounts : accounts[a] = Decimal(InitBalance)

\* C12: when a store call of a transfer's unit of work returns an error, as
\* it does once the deadline has expired, also while the call waits for a
\* hold, the step commits nothing, discards the unit's writes, releases
\* every hold of the unit and ends the call with that error.
DeadlineRollsBack ==
  [][\A p \in Procs :
       (pc[p] \in TransferStorePCs /\ result'[p] = StoreErrorAt(pc[p]))
       => /\ pc'[p] = "done"
          /\ accounts' = accounts /\ txns' = txns /\ effects' = effects
          /\ wbal'[p] = NoWrites /\ ~wstat'[p]
          /\ \A a \in AccountIDs : locks'[a] # p]_vars

\* C12 witness: a transfer failed at a hold acquisition while another
\* transfer, still in flight, holds both rows of the same pair of accounts.
ExpiredAtHoldAcquisition ==
  \E p, q \in Procs :
    /\ p # q
    /\ result[p] = "failed to get account"
    /\ Holds(p) = {}
    /\ pc[q] \in {"update_src", "update_dst", "update_status", "commit"}
    /\ Holds(q) = {txns[NewUUID(p)].src, txns[NewUUID(p)].dst}

\* C13: a request is past validation (its record is created, its unit of
\* work may take holds and write balances) only if both identifiers are
\* >= 1 and differ and the amount is a decimal number > 0; a request refused
\* by validation has no record and no effect.
InvalidInputRejected ==
  \A p \in Procs :
    /\ InTransfer(p) =>
         /\ req[p].src >= 1 /\ req[p].dst >= 1 /\ req[p].src # req[p].dst
         /\ ParseFloat(req[p].amount).ok
         /\ ~ParseFloat(req[p].amount).val.nan
         /\ ParseFloat(req[p].amount).val.n > 0
    /\ result[p] = "invalid transaction request" =>
         /\ NewUUID(p) \notin DOMAIN txns
         /\ effects[NewUUID(p)] = NoEffect /\ Holds(p) = {}

\* C14: a transfer one of whose accounts has no row never gets past its
\* lookups under hold and never succeeds; when it ends with "account not
\* found" it holds no row, has written nothing, has no committed effect and
\* its record is pending.
MissingAccountNotFound ==
  \A p \in Procs :
    /\ pc[p] \in {"check", "update_src", "update_dst", "update_status", "commit"} =>
         req[p].src \in DOMAIN accounts /\ req[p].dst \in DOMAIN accounts
    /\ (pc[p] = "done" /\ NewUUID(p) \in DOMAIN txns
          /\ ~(txns[NewUUID(p)].src \in DOMAIN accounts
               /\ txns[NewUUID(p)].dst \in DOMAIN accounts)) =>
         result[p] \in {"account not found"} \cup TransferStoreErrors
    /\ result[p] = "account not found" =>
         /\ Holds(p) = {} /\ wbal[p] = NoWrites
         /\ effects[NewUUID(p)] = NoEffect
         /\ txns[NewUUID(p)].status = TransactionStatusPending

\* C14 witness: a transfer from an existing account to an identifier without
\* a row, looked up second, ended with "account not found"; no row is held
\* and the balances are the initial ones.
NotFoundAfterFirstHold ==
  \E p \in Procs :
    /\ result[p] = "account not found"
    /\ txns[NewUUID(p)].src \in DOMAIN accounts
    /\ txns[NewUUID(p)].dst = NumAccounts + 1
    /\ \A a \in AccountIDs : locks[a] = NoProc
    /\ \A a \in DOMAIN accounts : accounts[a] = Decimal(InitBalance)


\* The failure kind the specification gives each cause of a failed transfer.
FailureKind(err) ==
  CASE err = "invalid transaction request" -> "InvalidInput"
    [] err = "account not found"           -> "NotFound"
    [] err = "insufficient balance"        -> "InsufficientFunds"
    [] OTHER                               -> "TransferUnavailable"

\* C15: two transfer requests that failed for causes of different kinds get
\* different responses, and no failed request gets the response of a
\* success.
DistinctFailureKinds ==
  \A p, q \in Procs :
    (/\ pc[p] = "done" /\ pc[q] = "done"
     /\ NewUUID(p) \in DOMAIN txns /\ NewUUID(q) \in DOMAIN txns
     /\ result[p] # "" /\ result[q] # "")
    => /\ TransactionHandlerResponse(result[p]).status # 200
       /\ FailureKind(result[p]) # FailureKind(result[q])
            => TransactionHandlerResponse(result[p]) # TransactionHandlerResponse(result[q])

\* C16: once its record exists, a transfer that failed for any reason has a
\* pending record, and no record has status failed.
FailedTransferStaysPending ==
  /\ \A p \in Procs :
       (pc[p] = "done" /\ result[p] # "" /\ NewUUID(p) \in DOMAIN txns)
         => txns[NewUUID(p)].status = TransactionStatusPending
  /\ \A t \in DOMAIN txns : txns[t].status # TransactionStatusFailed

\* C16 witness: one transfer found no account, another failed at its status
\* write after both balance writes; both records are pending.
NotFoundAndFailedPending ==
  \E p, q \in Procs :
    /\ result[p] = "account not found"
    /\ result[q] = "failed to update transaction"
    /\ txns[NewUUID(p)].status = TransactionStatusPending
    /\ txns[NewUUID(q)].status = TransactionStatusPending


\* C17: a CreateAccount that found its identifier existing gets the
\* response ACCOUNT_ALREADY_EXISTS, which differs from the response of a
\* generic failure and of a refused balance.
DuplicateIsAlreadyExists ==
  \A p \in Procs : result[p] = "account already exists" =>
    /\ AccountHandlerResponse(result[p]).code = "ACCOUNT_ALREADY_EXISTS"
    /\ AccountHandlerResponse(result[p]) # AccountHandlerResponse("failed to create account")
    /\ AccountHandlerResponse(result[p]) # AccountHandlerResponse("invalid initial balance")

\* C18: a CreateAccount that reaches its INSERT after a concurrent
\* CreateAccount of the same identifier committed ends, unless the store
\* itself fails, with the response ACCOUNT_ALREADY_EXISTS and leaves the
\* winner's row as it is.
ConcurrentCreateOneWins ==
  [][\A p \in Procs :
       (/\ pc[p] = "ca_insert" /\ pc'[p] = "done"
        /\ req[p].account_id \in DOMAIN accounts
        /\ result'[p] # StoreErrorAt("ca_insert"))
       => /\ accounts' = accounts
          /\ AccountHandlerResponse(result'[p]).code = "ACCOUNT_ALREADY_EXISTS"]_vars

CreatePCs == {"ca_exists", "ca_wait", "ca_found", "ca_insert", "ca_commit"}

\* C19: a CreateAccount is past validation only if its initial balance
\* parses and is not negative, and no committed balance is negative.
InitialBalanceValidated ==
  /\ \A p \in Procs : pc[p] \in CreatePCs =>
       /\ ParseFloat(req[p].initial_balance).ok
       /\ ~FloatLess(ParseFloat(req[p].initial_balance).val, Num(0))
  /\ \A a \in DOMAIN accounts : accounts[a].nan \/ accounts[a].q >= 0


\* C20: a GetAccount request never has to wait, whatever holds and
\* uncommitted writes exist; the step in which it reads changes no table,
\* hold or unit of work, finds the account exactly when a committed row
\* exists, returns that row's committed balance, and reports a missing
\* identifier as not found.
GetAccountHoldFree ==
  /\ [](\A p \in 1..NumProcs : pc[p] = "idle" =>
          \A accountID \in 1..(NumAccounts + 1) : ENABLED GetAccount(p, accountID))
  /\ [][\A p \in Procs : got'[p] # got[p] =>
          /\ got'[p].found = (got'[p].account_id \in DOMAIN accounts)
          /\ got'[p].found => got'[p].balance = accounts[got'[p].account_id]
          /\ ~got'[p].found =>
               /\ result'[p] = "account not found"
               /\ GetAccountHandlerResponse(result'[p]).code = "ACCOUNT_NOT_FOUND"
          /\ UNCHANGED <<accounts, txns, locks, wbal, wstat, stale, effects>>]_vars

\* C20 witness: a GetAccount returned the committed balance of a row that a
\* transfer in flight holds and has overwritten, uncommitted, with another
\* balance.
ReadBesideHeldRow ==
  \E p, q \in Procs :
    /\ pc[p] = "done" /\ result[p] = "" /\ got[p].found
    /\ locks[got[p].account_id] = q
    /\ got[p].account_id \in DOMAIN wbal[q]
    /\ wbal[q][got[p].account_id] # got[p].balance
    /\ got[p].balance = accounts[got[p].account_id]


\* The two account rows of a transfer in flight.
PairOf(p) == {req[p].src, req[p].dst}

\* C21: a transfer at a hold acquisition can take its step unless another
\* unit of work holds the row it asks for, which is one of its own two
\* rows; a transfer over a disjoint pair of accounts is never what it waits
\* for.
DisjointPairsIndependent ==
  \A p \in Procs : pc[p] \in {"lock1", "lock2"} =>
    /\ (ENABLED (LockFirst(p) \/ LockSecond(p)))
         \/ \E q \in Blockers(p) : Holds(q) \cap PairOf(p) # {}
    /\ \A q \in Procs \ {p} :
         (InTransfer(q) /\ PairOf(q) \cap PairOf(p) = {}) =>
           /\ q \notin Blockers(p)
           /\ Holds(q) \cap PairOf(p) = {}

\* C21 witness: two transfers over disjoint pairs of accounts hold both of
\* their rows at the same time.
DisjointBothHolding ==
  \E p, q \in Procs :
    /\ p # q
    /\ pc[p] = "update_src" /\ pc[q] = "update_src"
    /\ PairOf(p) \cap PairOf(q) = {}
    /\ Holds(p) = PairOf(p) /\ Holds(q) = PairOf(q)


\* C22: a call whose new transaction identifier already has a record fails
\* at Create: every record stays as it was, the call ends there with an
\* error, and it takes no hold and changes no balance.
RecordConflictRefused ==
  /\ [](\A p \in Procs :
          result[p] = "failed to create transaction: duplicate key" =>
            /\ pc[p] = "done"
            /\ Holds(p) = {}
            /\ wbal[p] = NoWrites
            /\ NewUUID(p) \notin DOMAIN txns)
  /\ [][\A p \in Procs :
          (pc[p] = "idle" /\ pc'[p] # "idle" /\ NewUUID(p) \notin DOMAIN txns') =>
            /\ txns' = txns
            /\ accounts' = accounts
            /\ locks' = locks
            /\ pc'[p] = "done"
            /\ result'[p] \notin {"", "running"}]_vars

\* C22 witness: a call was refused for an identifier conflict while the
\* record it collided with belongs to a transfer about to commit.
ConflictBesideTransfer ==
  \E p, q \in Procs :
    /\ p # q
    /\ result[p] = "failed to create transaction: duplicate key"
    /\ pc[q] = "commit"
    /\ NewUUID(q) \in DOMAIN txns


\* A step in which process p commits its unit of work and reports success.
ReportsSuccess(p) == pc[p] = "commit" /\ result'[p] = ""

\* C23: every transfer from A to B that reports success has committed
\* exactly its amount m, once (A goes down by m and B up by m in the step
\* that commits it), and no other step changes a committed balance; so k
\* successes from A0, B0 leave A0 - k*m and B0 + k*m.
NoLostUpdates ==
  [][/\ \A p \in Procs :
          (ReportsSuccess(p) /\ req[p].src # req[p].dst) =>
            LET m == ParseFloat(req[p].amount).val
                A == req[p].src
                B == req[p].dst
            IN  /\ ~m.nan /\ ~accounts'[A].nan /\ ~accounts'[B].nan
                /\ accounts'[A].q * ScaleStep = accounts[A].q * ScaleStep - m.n
                /\ accounts'[B].q * ScaleStep = accounts[B].q * ScaleStep + m.n
                /\ \A a \in DOMAIN accounts \ {A, B} : accounts'[a] = accounts[a]
     /\ (\A p \in Procs : ~ReportsSuccess(p)) => accounts' = accounts]_vars


\* Completed records naming account a as destination (dst TRUE) or source.
CompletedRecords(a, dst) ==
  {t \in DOMAIN txns :
     /\ txns[t].status = TransactionStatusCompleted
     /\ IF dst THEN txns[t].dst = a ELSE txns[t].src = a}

RECURSIVE SumOfAmounts(_)
SumOfAmounts(T) ==
  IF T = {} THEN 0
  ELSE LET t == CHOOSE x \in T : TRUE
       IN  txns[t].amount.q + SumOfAmounts(T \ {t})

\* C24: in every committed state each balance is its initial balance plus
\* the amounts of the completed records naming the account as destination
\* minus the amounts of those naming it as source.
BalanceAccounting ==
  \A a \in DOMAIN accounts :
    /\ ~accounts[a].nan
    /\ \A t \in CompletedRecords(a, TRUE) \cup CompletedRecords(a, FALSE) :
         ~txns[t].amount.nan
    /\ accounts[a].q = InitBalance + SumOfAmounts(CompletedRecords(a, TRUE))
                         - SumOfAmounts(CompletedRecords(a, FALSE))


\* C25: a transfer of m that read source balance s and destination balance d
\* under its holds writes exactly s - m and d + m, and a call that reports
\* success has its record, marked completed, under its identifier.
ExactEffect ==
  \A p \in Procs :
    /\ (pc[p] \in {"update_dst", "update_status", "commit"}) =>
         LET m == ParseFloat(req[p].amount).val
         IN  /\ req[p].src \in DOMAIN wbal[p] =>
                   /\ ~m.nan /\ ~wbal[p][req[p].src].nan
                   /\ wbal[p][req[p].src].q * ScaleStep
                        = held[p].src.q * ScaleStep - m.n
             /\ req[p].dst \in DOMAIN wbal[p] =>
                   /\ ~m.nan /\ ~wbal[p][req[p].dst].nan
                   /\ wbal[p][req[p].dst].q * ScaleStep
                        = held[p].dst.q * ScaleStep + m.n
    /\ result[p] = "" =>
         /\ NewUUID(p) \in DOMAIN txns
         /\ txns[NewUUID(p)].status = TransactionStatusCompleted


\* Results of calls that end before or at Create, without a record.
NoRecordResults ==
  {"invalid transaction request", "failed to create transaction",
   "failed to create transaction: duplicate key"}

\* C26 as stated: every call that was made has created a transaction
\* record.
EveryCallHasRecord ==
  \A p \in Procs : pc[p] # "idle" => NewUUID(p) \in DOMAIN txns

\* C26, amended: every call that passes validation and whose insert
\* succeeds has exactly one record, under its own fresh identifier, pending
\* or completed; a call refused before that has none; each step adds at
\* most one record, only for the call that starts in it, removes none, and
\* changes a record's status only in the commit of the call that created it.
OneRecordPerAcceptedCall ==
  /\ [](\A p \in Procs :
          /\ (pc[p] # "idle" /\ result[p] \notin NoRecordResults) =>
               /\ NewUUID(p) \in DOMAIN txns
               /\ txns[NewUUID(p)].status \in
                    {TransactionStatusPending, TransactionStatusCompleted}
          /\ (pc[p] = "idle" \/ result[p] \in NoRecordResults) =>
               NewUUID(p) \notin DOMAIN txns)
  /\ [][/\ DOMAIN txns \subseteq DOMAIN txns'
        /\ Cardinality(DOMAIN txns' \ DOMAIN txns) <= 1
        /\ \A t \in DOMAIN txns' \ DOMAIN txns :
             \E p \in Procs : t = NewUUID(p) /\ pc[p] = "idle" /\ pc'[p] = "begin"
        /\ \A t \in DOMAIN txns :
             txns'[t].status # txns[t].status =>
               \E p \in Procs : t = NewUUID(p) /\ pc[p] = "commit" /\ pc'[p] = "done"]_vars

\* C26 witness: one call ended with its record completed, and another was
\* refused at Create for an identifier conflict and has no record: one
\* record for two calls.
CompletedBesideRefused ==
  \E p, q \in Procs :
    /\ result[p] = "" /\ txns[NewUUID(p)].status = TransactionStatusCompleted
    /\ result[q] = "failed to create transaction: duplicate key"
    /\ NewUUID(q) \notin DOMAIN txns
    /\ Cardinality(DOMAIN txns) = 1


\* The succession of the steps of one call on its success path.
StepOrder ==
  {<<"idle", "begin">>, <<"begin", "lock1">>, <<"lock1", "lock2">>,
   <<"lock2", "check">>, <<"check", "update_src">>,
   <<"update_src", "update_dst">>, <<"update_dst", "update_status">>,
   <<"update_status", "commit">>, <<"commit", "done">>}

\* C27: a call moves through validation and record creation, the opening of
\* the unit of work, the first and the second hold (each read with its
\* hold), the funds check, the source write, the destination write, the
\* status write and the commit, in this order, leaving it only by ending;
\* success is reported only from the commit; a balance is written only
\* while both holds are held and after the funds check passed.
ProtocolStepOrder ==
  /\ [](\A p \in Procs :
          /\ InTransfer(p) =>
               /\ validateTransactionRequest(req[p]) = ""
               /\ NewUUID(p) \in DOMAIN txns
               /\ txns[NewUUID(p)].status = TransactionStatusPending
          /\ pc[p] \in {"idle", "begin", "lock1", "done"} => Holds(p) = {}
          /\ pc[p] = "lock2" => Holds(p) = {LowerID(p)}
          /\ pc[p] \in {"check", "update_src", "update_dst", "update_status", "commit"}
               => Holds(p) = PairOf(p)
          /\ pc[p] \in {"idle", "begin", "lock1", "lock2", "check", "update_src", "done"}
               => wbal[p] = NoWrites
          /\ pc[p] = "update_dst" => DOMAIN wbal[p] = {req[p].src}
          /\ pc[p] \in {"update_status", "commit"} => DOMAIN wbal[p] = PairOf(p)
          /\ wbal[p] # NoWrites =>
               SufficientFunds(BalanceToFloat(held[p].src),
                               ParseFloat(req[p].amount).val)
          /\ wstat[p] <=> pc[p] = "commit")
  /\ [][\A p \in Procs :
          /\ pc'[p] # pc[p] => (<<pc[p], pc'[p]>> \in StepOrder \/ pc'[p] = "done")
          /\ (result'[p] = "" /\ result[p] # "") => pc[p] = "commit"]_vars

\* C27 witness: a call has gone through every step up to the commit (both
\* holds, both writes, the status write) while another call waits at its
\* first hold.
AllStepsTaken ==
  \E p, q \in Procs :
    /\ pc[p] = "commit" /\ wstat[p]
    /\ Holds(p) = PairOf(p) /\ DOMAIN wbal[p] = PairOf(p)
    /\ pc[q] = "lock1" /\ ~ENABLED LockFirst(q)


\* C28: the step in which a call commits or is refused for funds has the
\* outcome and the balances of the same call run alone on the committed
\* state of that moment, so every interleaving equals the run of the calls
\* one at a time in the order of these steps; each call decides on balances
\* that are still the committed ones.
SerializableTransfers ==
  /\ [](\A p \in Procs :
          pc[p] \in {"check", "update_src", "update_dst", "update_status", "commit"} =>
            /\ held[p].src = accounts[req[p].src]
            /\ held[p].dst = accounts[req[p].dst])
  /\ [][\A p \in Procs :
          /\ (pc[p] = "commit" /\ result'[p] = "") =>
               [err |-> "", accounts |-> accounts'] \in TransferAlone(accounts, req[p])
          /\ (pc[p] = "check" /\ result'[p] = "insufficient balance") =>
               /\ accounts' = accounts
               /\ TransferAlone(accounts, req[p])
                    = {[err |-> "insufficient balance", accounts |-> accounts]}]_vars

\* C28 witness: a call is about to commit a transfer out of an account
\* whose balance it read after another call's transfer into it was
\* committed: the second ran on the result of the first.
RanOnCommittedResult ==
  \E p, q \in Procs :
    /\ p # q
    /\ result[p] = ""
    /\ pc[q] = "commit"
    /\ ~held[q].src.nan /\ held[q].src.q = InitBalance + 1
    /\ held[q].src = accounts[req[q].src]


\* C29: every held row is held by one open unit of work; a transfer reads a
\* balance in the step that gives it the row's hold, writes only rows it
\* holds, and holds both of its rows from the funds check to the commit, so
\* each value it writes is computed from the row's committed balance.
ReadsAndWritesUnderHold ==
  /\ [](/\ \A a \in AccountIDs : locks[a] # NoProc => pc[locks[a]] \in TransferPCs \cup CreatePCs
        /\ \A p \in Procs :
             /\ \A a \in DOMAIN wbal[p] : locks[a] = p
             /\ pc[p] \in {"check", "update_src", "update_dst", "update_status", "commit"}
                  => (locks[req[p].src] = p /\ locks[req[p].dst] = p)
             /\ req[p].src \in DOMAIN wbal[p] =>
                  wbal[p][req[p].src] \in
                    NumericFromFloat(FloatSub(BalanceToFloat(accounts[req[p].src]),
                                              ParseFloat(req[p].amount).val))
             /\ req[p].dst \in DOMAIN wbal[p] =>
                  wbal[p][req[p].dst] \in
                    NumericFromFloat(FloatAdd(BalanceToFloat(accounts[req[p].dst]),
                                              ParseFloat(req[p].amount).val)))
  /\ [][\A p \in Procs :
          /\ (pc[p] = "lock1" /\ pc'[p] = "lock2") =>
               /\ locks'[LowerID(p)] = p
               /\ \/ LowerID(p) = req[p].src /\ held'[p].src = accounts[LowerID(p)]
                  \/ LowerID(p) = req[p].dst /\ held'[p].dst = accounts[LowerID(p)]
          /\ (pc[p] = "lock2" /\ pc'[p] = "check") =>
               /\ locks'[HigherID(p)] = p
               /\ \/ HigherID(p) = req[p].src /\ held'[p].src = accounts[HigherID(p)]
                  \/ HigherID(p) = req[p].dst /\ held'[p].dst = accounts[HigherID(p)]
          /\ \A a \in DOMAIN wbal'[p] \ DOMAIN wbal[p] :
               locks[a] = p /\ locks'[a] = p]_vars

\* C29 witness: a transfer holding both of its rows has written its source
\* and not yet committed, while another transfer waits for one of the rows.
WriteUnderHoldWhileOtherWaits ==
  \E p, q \in Procs :
    /\ pc[p] = "update_dst"
    /\ wbal[p][req[p].src] # accounts[req[p].src]
    /\ locks[req[p].src] = p /\ locks[req[p].dst] = p
    /\ pc[q] = "lock1"
    /\ p \in Blockers(q)


\* C30: the step that ends a call, whichever it is, releases every hold of
\* the call's unit of work and no other; a call that is not running holds
\* nothing, and once every call has returned no row is held.
HoldsReleasedOnExit ==
  /\ [](/\ \A p \in Procs : pc[p] \in {"idle", "done"} => Holds(p) = {}
        /\ (\A p \in Procs : pc[p] = "done") =>
              \A a \in AccountIDs : locks[a] = NoProc)
  /\ [][\A p \in Procs :
          (pc[p] # "done" /\ pc'[p] = "done") =>
            \A a \in AccountIDs :
              /\ locks'[a] # p
              /\ locks[a] # p => locks'[a] = locks[a]]_vars

\* C30 witness: every call has returned and no row is held, after one call
\* committed and another found its second account missing when it already
\* held the first.
AllReturnedNothingHeld ==
  /\ \A p \in Procs : pc[p] = "done"
  /\ \A a \in AccountIDs : locks[a] = NoProc
  /\ \E p, q \in Procs :
       /\ result[p] = ""
       /\ result[q] = "account not found"
       /\ NewUUID(q) \in DOMAIN txns
       /\ \E lo, hi \in {txns[NewUUID(q)].src, txns[NewUUID(q)].dst} :
            lo < hi /\ lo \in DOMAIN accounts /\ hi \notin DOMAIN accounts


\* C31: no step removes an account or a transaction record; a committed
\* balance of an existing account changes only in the commit of a transfer
\* naming the account as its source or destination, so never by
\* CreateAccount or GetAccount; a record changes only in the commit of the
\* transfer that created it.
OperationFrame ==
  [][/\ DOMAIN accounts \subseteq DOMAIN accounts'
     /\ DOMAIN txns \subseteq DOMAIN txns'
     /\ \A a \in DOMAIN accounts :
          accounts'[a] # accounts[a] =>
            \E p \in Procs : /\ pc[p] = "commit" /\ pc'[p] = "done"
                             /\ a \in {req[p].src, req[p].dst}
     /\ \A t \in DOMAIN txns :
          txns'[t] # txns[t] =>
            \E p \in Procs : /\ pc[p] = "commit" /\ pc'[p] = "done"
                             /\ t = NewUUID(p)]_vars

\* C31 witness: an account was created and a transfer between two other
\* accounts committed; the created account exists with the balance it was
\* created with.
CreatedBesideTransfer ==
  \E p, q \in Procs :
    /\ result[p] = "" /\ NewUUID(p) \in DOMAIN txns
    /\ txns[NewUUID(p)].status = TransactionStatusCompleted
    /\ {txns[NewUUID(p)].src, txns[NewUUID(p)].dst} = 1..NumAccounts
    /\ result[q] = "" /\ NewUUID(q) \notin DOMAIN txns
    /\ (NumAccounts + 1) \in DOMAIN accounts
    /\ accounts[NumAccounts + 1] = Decimal(1)
    /\ accounts[1] = Decimal(0)


\* The amount of p's request equals the source balance it read, exactly.
AmountIsWholeBalance(p) ==
  /\ ~held[p].src.nan
  /\ ParseFloat(req[p].amount).val = BalanceToFloat(held[p].src)

\* C32: a transfer whose amount equals the source balance it holds passes
\* the funds check and writes 0 to the source, which is what its commit
\* leaves there; a transfer of a positive amount that finds its source at 0
\* is refused with "insufficient balance".
FundsCheckBoundary ==
  /\ [](\A p \in Procs :
          (pc[p] \in {"update_dst", "update_status", "commit"} /\ AmountIsWholeBalance(p))
            => wbal[p][req[p].src] = Decimal(0))
  /\ [][\A p \in Procs :
          /\ (pc[p] = "check" /\ pc'[p] # "check" /\ AmountIsWholeBalance(p))
               => pc'[p] = "update_src"
          /\ (pc[p] = "commit" /\ result'[p] = "" /\ AmountIsWholeBalance(p))
               => accounts'[req[p].src] = Decimal(0)
          /\ (/\ pc[p] = "check" /\ pc'[p] # "check"
              /\ held[p].src = Decimal(0)
              /\ FloatLess(Num(0), ParseFloat(req[p].amount).val))
               => /\ result'[p] = "insufficient balance"
                  /\ accounts' = accounts]_vars

\* C32 witness: a transfer of the source's whole balance committed and left
\* the source at 0 and the destination with both balances; a later transfer
\* out of that source was refused for funds.
WholeBalanceThenRefused ==
  \E p, q \in Procs :
    /\ result[p] = ""
    /\ txns[NewUUID(p)].amount = Decimal(InitBalance)
    /\ accounts[txns[NewUUID(p)].src] = Decimal(0)
    /\ accounts[txns[NewUUID(p)].dst] = Decimal(2 * InitBalance)
    /\ result[q] = "insufficient balance"
    /\ txns[NewUUID(q)].src = txns[NewUUID(p)].src


\* How far a call is: 0 before it starts, one more for each statement of
\* ProcessTransaction and Transfer, the highest once it has returned.
StepRank(at) ==
  CASE at = "idle"          -> 0
    [] at = "begin"         -> 1
    [] at = "lock1"         -> 2
    [] at = "lock2"         -> 3
    [] at = "check"         -> 4
    [] at = "update_src"    -> 5
    [] at = "update_dst"    -> 6
    [] at = "update_status" -> 7
    [] at = "commit"        -> 8
    [] at = "done"          -> 9

\* C33: a call never goes back to a statement it has passed, so it opens
\* its unit of work once and asks for each hold once; the step in which a
\* store call or a check fails ends the call with that error, and a call
\* that has returned takes no further step.
NoInternalRetry ==
  /\ [](\A p \in Procs :
          /\ result[p] # "running" => pc[p] = "done"
          /\ pc[p] = "done" =>
               ~ENABLED (TransferStep(p) \/ StoreError(p)
                         \/ \E r \in Requests : ProcessTransaction(p, r)))
  /\ [][\A p \in Procs :
          /\ pc'[p] # pc[p] => StepRank(pc'[p]) > StepRank(pc[p])
          /\ (InTransfer(p) /\ Holds(p) # {} /\ \A a \in AccountIDs : locks'[a] # p)
               => pc'[p] = "done"
          /\ (InTransfer(p) /\ result'[p] # "running") =>
               (pc'[p] = "done" /\ (result'[p] = "" => pc[p] = "commit"))]_vars

\* C33 witness: a call whose hold acquisition failed has returned
\* that error while the other call still holds the row it was waiting for.
FailedWaitingNotRetried ==
  \E p, q \in Procs :
    /\ pc[p] = "done" /\ result[p] = "failed to get account"
    /\ pc[q] \in {"check", "update_src", "update_dst", "update_status", "commit"}
    /\ Holds(q) = {txns[NewUUID(p)].src, txns[NewUUID(p)].dst}
    /\ txns[NewUUID(p)].status = TransactionStatusPending
    /\ ~ENABLED (TransferStep(p) \/ StoreError(p))


\* C34: in every committed state every transaction record names a source and
\* a destination account that both exist.
RecordsNameExistingAccounts ==
  \A t \in DOMAIN txns :
    /\ txns[t].src \in DOMAIN accounts
    /\ txns[t].dst \in DOMAIN accounts


\* C35: a record, once created, stays in the table with the source, the
\* destination and the amount it was created with (only its status may
\* change), and in every record the source differs from the destination and
\* the amount is a number > 0.
RecordFieldsImmutable ==
  /\ [](\A t \in DOMAIN txns :
          /\ txns[t].src # txns[t].dst
          /\ ~txns[t].amount.nan
          /\ txns[t].amount.q > 0)
  /\ [][\A t \in DOMAIN txns :
          /\ t \in DOMAIN txns'
          /\ txns'[t].src = txns[t].src
          /\ txns'[t].dst = txns[t].dst
          /\ txns'[t].amount = txns[t].amount]_vars

====
